---------------------------- MODULE Spec2Model ----------------------------
(***************************************************************************)
(* Model of claude_report.py: ClaudeReportGenerator.load_sessions,         *)
(* _load_jsonl_file, _summarize_content, _summarize_tool_use and           *)
(* analyze_sessions.                                                       *)
(*                                                                         *)
(* Text is modelled as a sequence of whitespace-separated words drawn from *)
(* a fixed vocabulary; what each regular expression and substring test of  *)
(* the source answers on a word is tabulated below.  The pseudo-word "ws"  *)
(* stands for a surplus run of whitespace (it disappears in normalisation).*)
(* Instants are whole hours since an arbitrary epoch (UTC).                *)
(***************************************************************************)
EXTENDS Integers, Sequences, FiniteSets, TLC

VARIABLES
    pc,              \* position of main(): start, read, loaded, fold, done, fatal, aborted
    archive,         \* which kind of log lines the session files hold
    root_exists,     \* self.base_path.exists()
    project_filter,  \* load_sessions argument ("" = no filter)
    fi,              \* load_sessions: index of the file being visited
    lines,           \* lines of the file being read, as read so far
    nlines,          \* number of lines read so far over all files
    data,            \* _load_jsonl_file: the local list `data`
    sessions,        \* self.sessions
    warnings,        \* session ids of the "Warning: Failed to load" messages on stderr
    analysis,        \* analyze_sessions: the dict `analysis`
    si, ei,          \* analyze_sessions: session / entry being folded
    text_in,         \* _summarize_content: argument `content`
    topic_out,       \* _summarize_content: returned value
    called,          \* whether _summarize_content has returned
    report           \* generate_markdown_report: the lines of the hourly section

vars == <<pc, archive, root_exists, project_filter, fi, lines, nlines, data,
          sessions, warnings, analysis, si, ei, text_in, topic_out, called,
          report>>

loaderVars == <<archive, root_exists, project_filter, fi, lines, nlines, data,
                sessions, warnings>>
foldVars == <<analysis, si, ei>>
summaryVars == <<text_in, topic_out, called>>
reportVars == <<report>>

-----------------------------------------------------------------------------
(* Bounds of the model *)

MaxWords == 3        \* words in a text handed to _summarize_content
MaxLines == 3        \* lines read over all session files of one run
MaxBlocks == 2       \* tool_use blocks in one generated assistant entry
MaxTime == 3         \* instants FirstInstant .. FirstInstant + MaxTime occur in logs
FirstInstant == 13   \* earliest instant occurring in a log
MaxCount == 10       \* entries counted in one hour of a drawn histogram
UtcOffsetHours == 9  \* offset of the local time zone used by astimezone()

-----------------------------------------------------------------------------
(* Program constants *)

HoursPerDay == 24
UserTopicCap == 3
TopicCap == 5
Base64MinLen == 1000
LongTextLen == 100
LongTextWords == 10
TopicChars == 50
QueryChars == 30

-----------------------------------------------------------------------------
(* Sequence helpers *)

Min(a, b) == IF a <= b THEN a ELSE b

Last(s) == s[Len(s)]

Take(s, n) == SubSeq(s, 1, Min(n, Len(s)))

RECURSIVE SumSeq(_)
SumSeq(s) == IF s = <<>> THEN 0 ELSE Head(s) + SumSeq(Tail(s))

RECURSIVE Flatten(_)
Flatten(ss) == IF ss = <<>> THEN <<>> ELSE Head(ss) \o Flatten(Tail(ss))

Map(Op(_), s) == [i \in 1..Len(s) |-> Op(s[i])]

-----------------------------------------------------------------------------
(* Vocabulary: what the source's patterns answer on each word *)

PlainWords ==
    {"hello", "code", "function", "create", "error", "edit", "read", "fix"}

Vocabulary ==
    PlainWords \cup
    {"ws", "pic.png", "http://h.com/a.png", "/tmp/shot.png", "http://h.com/p",
     "http:///x", "/tmp/app.log", "data:image", "Screenshot", "b64blob",
     "long-text", "ja:shusei"}

\* len(word)
WordLen(w) ==
    CASE w = "ws" -> 0
      [] w = "hello" -> 5
      [] w = "code" -> 4
      [] w = "function" -> 8
      [] w = "create" -> 6
      [] w = "error" -> 5
      [] w = "edit" -> 4
      [] w = "read" -> 4
      [] w = "fix" -> 3
      [] w = "pic.png" -> 7
      [] w = "http://h.com/a.png" -> 18
      [] w = "/tmp/shot.png" -> 13
      [] w = "http://h.com/p" -> 14
      [] w = "http:///x" -> 9
      [] w = "/tmp/app.log" -> 12
      [] w = "data:image" -> 10
      [] w = "Screenshot" -> 10
      [] w = "b64blob" -> 1001   \* a base64 payload of 1001 characters
      [] w = "long-text" -> 101  \* one hyphenated word of 101 characters
      [] w = "ja:shusei" -> 2    \* the two-character word 修正
      [] OTHER -> 1

\* group(1) of image_pattern on the word, "" when it does not match
ImageName(w) ==
    CASE w = "pic.png" -> "pic.png"
      [] w = "http://h.com/a.png" -> "a.png"
      [] w = "/tmp/shot.png" -> "shot.png"
      [] OTHER -> ""

\* the word consists of characters of [A-Za-z0-9+/] only
Base64Word(w) == w \in PlainWords \cup {"b64blob", "Screenshot"}

\* os.path.basename of group(1) of the file path pattern, "" when no match
PathBasename(w) ==
    CASE w = "/tmp/shot.png" -> "shot.png"
      [] w = "/tmp/app.log" -> "app.log"
      [] OTHER -> ""

\* r'https?://[^\s]+' matches in the word
UrlWord(w) == w \in {"http://h.com/a.png", "http://h.com/p", "http:///x"}

\* group(1) of r'https?://([^/]+)' on the word, "" when it does not match
UrlHost(w) ==
    CASE w = "http://h.com/a.png" -> "h.com"
      [] w = "http://h.com/p" -> "h.com"
      [] OTHER -> ""

\* the needles of the source's substring tests that occur in the word as
\* written; needles in Japanese are named by their reading ("ja:...")
Needles(w) ==
    CASE w \in {"code", "function", "create", "error", "edit", "read"} -> {w}
      [] w = "data:image" -> {"data:image"}
      [] w = "ja:shusei" -> {"ja:shusei"}
      [] OTHER -> {}

\* the needles that occur in word.lower()
NeedlesLower(w) == IF w = "Screenshot" THEN {"screenshot"} ELSE Needles(w)

\* needle in content
Contains(c, needle) == \E i \in 1..Len(c) : needle \in Needles(c[i])

\* needle in content.lower()
ContainsLower(c, needle) == \E i \in 1..Len(c) : needle \in NeedlesLower(c[i])

-----------------------------------------------------------------------------
(* Topic labels: the strings put in a project's topic list *)

\* f"{self.msg[key]}: {name}" or self.msg[key]
Label(key, name) ==
    [key |-> key, name |-> name, words |-> <<>>, chars |-> 0, ellipsis |-> FALSE]

\* len(' '.join(words))
JoinedLen(c) == IF c = <<>> THEN 0 ELSE SumSeq(Map(WordLen, c)) + Len(c) - 1

\* ' '.join(words)[:n], as the words it reaches into and its length
Prefix(words, n) ==
    LET m == Min(n, JoinedLen(words))
        k == CHOOSE i \in 0..Len(words) :
                 /\ JoinedLen(Take(words, i)) >= m
                 /\ \A j \in 0..(i - 1) : JoinedLen(Take(words, j)) < m
    IN [words |-> Take(words, k), chars |-> m]

\* text + "..." when ellipsis, text otherwise; text is a Prefix
TextLabel(text, ellipsis) ==
    [key |-> "text", name |-> "", words |-> text.words, chars |-> text.chars,
     ellipsis |-> ellipsis]

None == Label("None", "")

\* truthiness of a returned topic: None and "" are falsy
Truthy(t) == t # None /\ ~(t.key = "text" /\ t.chars = 0 /\ ~t.ellipsis)

\* re.sub(r'\s+', ' ', content).strip()
Normalize(raw) == SelectSeq(raw, LAMBDA w : w # "ws")

FirstWhere(c, Test(_)) ==
    LET hits == {i \in 1..Len(c) : Test(c[i])}
    IN IF hits = {} THEN 0 ELSE CHOOSE i \in hits : \A j \in hits : i <= j

-----------------------------------------------------------------------------
(* _summarize_content *)

CodeKeywords ==
    {"ja:jissou", "ja:koodo", "ja:puroguramu", "ja:kansuu", "ja:kurasu",
     "ja:mesoddo", "implement", "code", "function", "class", "method"}

\* the branch taken once the file path pattern has matched
FileLabel(c, filename) ==
    IF \/ Contains(c, "ja:sakusei") \/ ContainsLower(c, "create")
       \/ Contains(c, "ja:seisei")
    THEN Label("file_create", filename)
    ELSE IF \/ Contains(c, "ja:henshuu") \/ ContainsLower(c, "edit")
            \/ Contains(c, "ja:shusei")
    THEN Label("file_edit", filename)
    ELSE IF \/ Contains(c, "ja:yomi") \/ ContainsLower(c, "read")
            \/ Contains(c, "ja:kakunin")
    THEN Label("file_read", filename)
    ELSE Label("file_operation", filename)

\* the keyword loop's branch with the error test in front of the creation
\* test
CodeLabelErrorFirst(c) ==
    IF \/ Contains(c, "ja:eraa") \/ ContainsLower(c, "error")
       \/ Contains(c, "ja:shusei")
    THEN Label("error_fix", "")
    ELSE IF \/ Contains(c, "ja:sakusei") \/ Contains(c, "ja:tsukutte")
            \/ ContainsLower(c, "create")
    THEN Label("code_implementation", "")
    ELSE Label("code_related", "")

\* the branch taken inside the keyword loop at the first keyword found
CodeLabel(c) ==
    IF \/ Contains(c, "ja:sakusei") \/ Contains(c, "ja:tsukutte")
       \/ ContainsLower(c, "create")
    THEN Label("code_implementation", "")
    ELSE IF \/ Contains(c, "ja:eraa") \/ ContainsLower(c, "error")
            \/ Contains(c, "ja:shusei")
    THEN Label("error_fix", "")
    ELSE Label("code_related", "")

\* the tail of the function: long and short text
GeneralLabel(c) ==
    IF JoinedLen(c) > LongTextLen
    THEN TextLabel(Prefix(Take(c, LongTextWords), TopicChars), TRUE)
    ELSE IF JoinedLen(c) > TopicChars
    THEN TextLabel(Prefix(c, TopicChars), TRUE)
    ELSE TextLabel(Prefix(c, JoinedLen(c)), FALSE)

\* from the URL detection on: a URL without a host falls out of its branch
UrlOnward(c) ==
    LET url == FirstWhere(c, UrlWord) IN
    IF url # 0 /\ UrlHost(c[url]) # ""
    THEN Label("web_reference", UrlHost(c[url]))
    ELSE IF \E k \in CodeKeywords : ContainsLower(c, k)
    THEN CodeLabel(c)
    ELSE GeneralLabel(c)

\* the URL detection moved in front of the image detection
SummarizeContentUrlFirst(raw) ==
    IF raw = <<>> THEN None
    ELSE
    LET c == Normalize(raw)
        image == FirstWhere(c, LAMBDA w : ImageName(w) # "")
        url == FirstWhere(c, UrlWord)
    IN
    IF url # 0 /\ UrlHost(c[url]) # ""
    THEN Label("web_reference", UrlHost(c[url]))
    ELSE IF image # 0 THEN Label("image_file", ImageName(c[image]))
    ELSE UrlOnward(c)

SummarizeContent(raw) ==
    IF raw = <<>> THEN None
    ELSE
    LET c == Normalize(raw)
        image == FirstWhere(c, LAMBDA w : ImageName(w) # "")
        path == FirstWhere(c, LAMBDA w : PathBasename(w) # "")
    IN
    IF image # 0 THEN Label("image_file", ImageName(c[image]))
    ELSE IF \/ Contains(c, "data:image")
            \/ /\ JoinedLen(c) > Base64MinLen
               /\ c # <<>>
               /\ \A i \in 1..Len(c) : Base64Word(c[i])
    THEN Label("image_data", "")
    ELSE IF ContainsLower(c, "screenshot") \/ ContainsLower(c, "screencapture")
    THEN Label("screenshot", "")
    ELSE IF path # 0 THEN FileLabel(c, PathBasename(c[path]))
    ELSE UrlOnward(c)

-----------------------------------------------------------------------------
(* _summarize_tool_use *)

\* a content block of a message: a typed dict ("text", "tool_use") or a raw
\* string item ("str")
Block(type, name, input, file_path, command, query, url, text) ==
    [type |-> type, name |-> name, input |-> input, file_path |-> file_path,
     command |-> command, query |-> query, url |-> url, text |-> text]

ToolUse(name, input, file_path, command, query, url) ==
    Block("tool_use", name, input, file_path, command, query, url, <<>>)

TextBlock(text) == Block("text", "", "absent", "", <<>>, <<>>, "", text)

\* os.path.basename(file_path)
Basename(path) ==
    CASE path = "/src/main.py" -> "main.py"
      [] path = "/src/" -> ""
      [] OTHER -> path

\* f"[{tool_name}] {' '.join(words)}"
ToolLabel(tool_name, words) ==
    [key |-> "tool", name |-> tool_name, words |-> words, chars |-> 0,
     ellipsis |-> FALSE]

\* the value returned, or raised |-> TRUE when tool_input.get raises because
\* the block's input is no dict
SummarizeToolUse(tool_name, b) ==
    LET ret(t) == [raised |-> FALSE, topic |-> t]
        words == Normalize(b.command)
    IN
    IF tool_name \in {"Read", "Write", "Edit", "Bash", "WebSearch", "WebFetch"}
       /\ b.input = "scalar"
    THEN [raised |-> TRUE, topic |-> None]
    ELSE IF tool_name \in {"Read", "Write", "Edit"}
    THEN IF b.file_path # ""
         THEN ret(ToolLabel(tool_name, <<Basename(b.file_path)>>))
         ELSE ret(None)
    ELSE IF tool_name = "Bash"
    THEN IF b.command # <<>> /\ words # <<>>
         THEN ret(ToolLabel(tool_name, <<Head(words), "command_execution">>))
         ELSE ret(None)
    ELSE IF tool_name = "WebSearch"
    THEN IF b.query # <<>>
         THEN ret([key |-> "tool", name |-> tool_name,
                   words |-> Prefix(b.query, QueryChars).words,
                   chars |-> Prefix(b.query, QueryChars).chars,
                   ellipsis |-> JoinedLen(b.query) > QueryChars])
         ELSE ret(None)
    ELSE IF tool_name = "WebFetch"
    THEN IF b.url # "" /\ UrlHost(b.url) # ""
         THEN ret(ToolLabel(tool_name, <<UrlHost(b.url)>>))
         ELSE ret(None)
    ELSE ret(None)

-----------------------------------------------------------------------------
(* Log lines *)

Instants == FirstInstant..(FirstInstant + MaxTime)

\* the range handed to load_sessions: the first and the last instant of the
\* logs lie outside it
from_date == FirstInstant + 1
to_date == FirstInstant + MaxTime - 1

\* One line of a session file.  shape: what json.loads makes of it
\* ("malformed": it raises JSONDecodeError).  ts: the 'timestamp' field
\* ("absent", "bad": not ISO-8601, "iso") and the instant it names.  message:
\* the 'message' field ("absent", "dict", "scalar"); content: message's
\* 'content' ("absent", "null", "number", "str" with `text`, "list" with
\* `blocks`).  summary: the 'summary' field, "absent" when missing.
Line(shape, ts, instant, type, message, content, text, blocks, summary) ==
    [shape |-> shape, ts |-> ts, instant |-> instant, type |-> type,
     message |-> message, content |-> content, text |-> text,
     blocks |-> blocks, summary |-> summary]

NonObject(shape) ==
    Line(shape, "absent", 0, "", "absent", "absent", <<>>, <<>>, "absent")

UserLine(ts, instant, text) ==
    Line("object", ts, instant, "user", "dict", "str", text, <<>>, "absent")

AssistantLine(content, blocks) ==
    Line("object", "absent", 0, "assistant", "dict", content, <<>>, blocks,
         "absent")

SummaryLine(summary) ==
    Line("object", "absent", 0, "summary", "absent", "absent", <<>>, <<>>,
         summary)

OtherLine(ts, instant) ==
    Line("object", ts, instant, "system", "absent", "absent", <<>>, <<>>,
         "absent")

ReadBlock == ToolUse("Read", "dict", "/src/main.py", <<>>, <<>>, "")
BashBlock == ToolUse("Bash", "dict", "", <<"npm", "test">>, <<>>, "")
GrepBlock == ToolUse("Grep", "dict", "", <<>>, <<>>, "")
BadInputBlock == ToolUse("Read", "scalar", "", <<>>, <<>>, "")

ToolNames == {"Read", "Bash", "Grep"}

\* k Read blocks in a row
Reads(k) == [i \in 1..k |-> ReadBlock]

\* lines whose timestamps, shapes and payload types vary
TimedLines ==
    {UserLine("iso", t, <<"hello">>) : t \in Instants} \cup
    {UserLine("bad", 0, <<"hello">>), SummaryLine("Fix login bug"),
     NonObject("malformed"), NonObject("number"), NonObject("array"),
     AssistantLine("null", <<>>), OtherLine("iso", from_date)}

\* lines without timestamps whose topics and tool uses vary
TypedLines ==
    {AssistantLine("list", Reads(k)) : k \in 1..MaxBlocks} \cup
    {UserLine("absent", 0, <<"read", "/tmp/app.log">>),
     UserLine("absent", 0, <<"ws">>),
     SummaryLine("Fix login bug"),
     OtherLine("absent", 0),
     AssistantLine("list", <<GrepBlock>>),
     AssistantLine("list", <<TextBlock(<<"hello">>), BashBlock>>),
     AssistantLine("list", <<BadInputBlock>>)}

LogLines(kind) == IF kind = "timed" THEN TimedLines ELSE TypedLines

-----------------------------------------------------------------------------
(* load_sessions and _load_jsonl_file *)

\* self.base_path.iterdir(), and project_dir.glob("*.jsonl") by file stem
RootEntries ==
    << [name |-> "-Users-zabaglione-alpha", is_dir |-> TRUE, files |-> <<"s1">>],
       [name |-> "notes.txt", is_dir |-> FALSE, files |-> <<>>],
       [name |-> "beta", is_dir |-> TRUE, files |-> <<"s2">>],
       [name |-> "alpha", is_dir |-> TRUE, files |-> <<"s3">>] >>

\* project_dir.name.replace("-Users-zabaglione-", "")
ProjectName(dirname) ==
    IF dirname = "-Users-zabaglione-alpha" THEN "alpha" ELSE dirname

ProjectNames == {ProjectName(RootEntries[i].name) : i \in DOMAIN RootEntries}

Filters == {"", "ALP"}

\* project_filter.lower() in project_name.lower()
FilterIn(filter, project) == filter = "ALP" /\ project = "alpha"

\* the files the two loops of load_sessions visit, in order
RECURSIVE FilesVisited(_, _)
FilesVisited(entries, filter) ==
    IF entries = <<>> THEN <<>>
    ELSE
    LET d == Head(entries)
        project == ProjectName(d.name)
        rest == FilesVisited(Tail(entries), filter)
    IN
    IF ~d.is_dir THEN rest
    ELSE IF filter # "" /\ ~FilterIn(filter, project) THEN rest
    ELSE [i \in 1..Len(d.files) |->
             [project |-> project, session_id |-> d.files[i]]] \o rest

\* an unparseable timestamp treated as a missing one
LoadLineKeepsUnparseable(acc, e, from, to) ==
    IF e.shape = "malformed" THEN acc
    ELSE IF e.shape = "number" THEN acc
    ELSE IF e.shape = "array" THEN Append(acc, e)
    ELSE IF e.ts = "absent" \/ e.ts = "bad" THEN Append(acc, e)
    ELSE IF from <= e.instant /\ e.instant <= to THEN Append(acc, e)
    ELSE acc

\* the end of the range excluded
LoadLineEndExclusive(acc, e, from, to) ==
    IF e.shape = "malformed" THEN acc
    ELSE IF e.shape = "number" THEN acc
    ELSE IF e.shape = "array" THEN Append(acc, e)
    ELSE IF e.ts = "absent" THEN Append(acc, e)
    ELSE IF e.ts = "bad" THEN acc
    ELSE IF from <= e.instant /\ e.instant < to THEN Append(acc, e)
    ELSE acc

\* one iteration of the loop over the lines of the file
LoadLine(acc, e, from, to) ==
    IF e.shape = "malformed" THEN acc          \* json.JSONDecodeError
    ELSE IF e.shape = "number" THEN acc        \* TypeError: not iterable
    ELSE IF e.shape = "array" THEN Append(acc, e)
    ELSE IF e.ts = "absent" THEN Append(acc, e)
    ELSE IF e.ts = "bad" THEN acc              \* ValueError of fromisoformat
    ELSE IF from <= e.instant /\ e.instant <= to THEN Append(acc, e)
    ELSE acc

\* the step of the file loop once a file is finished with
NextFile ==
    /\ fi' = fi + 1
    /\ lines' = <<>>
    /\ data' = <<>>
    /\ pc' = IF fi + 1 > Len(FilesVisited(RootEntries, project_filter))
             THEN "loaded" ELSE "read"

\* load_sessions up to the first file
LoadSessions ==
    /\ pc = "start"
    /\ archive # "none"
    /\ IF ~root_exists
       THEN pc' = "fatal" /\ UNCHANGED <<fi, lines, data>>
       ELSE NextFile
    /\ UNCHANGED <<archive, root_exists, project_filter, nlines, sessions,
                   warnings, foldVars, summaryVars, reportVars>>

\* _load_jsonl_file: one line of the file
ReadLine ==
    /\ pc = "read"
    /\ nlines < MaxLines
    /\ \E e \in LogLines(archive) :
          /\ lines' = Append(lines, e)
          /\ data' = LoadLine(data, e, from_date, to_date)
    /\ nlines' = nlines + 1
    /\ UNCHANGED <<pc, archive, root_exists, project_filter, fi, sessions,
                   warnings, foldVars, summaryVars, reportVars>>

\* the exception of _load_jsonl_file leaves load_sessions
ReadErrorPropagates ==
    /\ pc = "read"
    /\ pc' = "fatal"
    /\ UNCHANGED <<loaderVars, foldVars, summaryVars, reportVars>>

\* _load_jsonl_file raises (open or read fails): load_sessions warns
ReadError ==
    /\ pc = "read"
    /\ warnings' = Append(warnings,
           FilesVisited(RootEntries, project_filter)[fi].session_id)
    /\ NextFile
    /\ UNCHANGED <<archive, root_exists, project_filter, nlines, sessions,
                   foldVars, summaryVars, reportVars>>

\* _load_jsonl_file returns data
EndOfFile ==
    /\ pc = "read"
    /\ LET f == FilesVisited(RootEntries, project_filter)[fi] IN
       sessions' = IF data # <<>>
                   THEN Append(sessions, [project |-> f.project,
                                          session_id |-> f.session_id,
                                          data |-> data])
                   ELSE sessions
    /\ NextFile
    /\ UNCHANGED <<archive, root_exists, project_filter, nlines, warnings,
                   foldVars, summaryVars, reportVars>>

-----------------------------------------------------------------------------
(* analyze_sessions *)

\* timestamp_utc.astimezone(): local date (days since the epoch) and hour
LocalDate(t) == (t + UtcOffsetHours) \div HoursPerDay
LocalHour(t) == (t + UtcOffsetHours) % HoursPerDay

Dates == {LocalDate(t) : t \in Instants}
Hours == 0..(HoursPerDay - 1)

\* the default of analysis["projects"]; None is the empty set, an instant t
\* the set {t}
NewProject ==
    [sessions |-> <<>>, message_count |-> 0,
     tool_usage |-> [n \in ToolNames |-> 0],
     first_activity |-> {}, last_activity |-> {}, topics |-> <<>>]

\* the dict built at the top of analyze_sessions; a missing key of a
\* defaultdict or Counter is the default value
NewAnalysis(loaded) ==
    [total_sessions |-> Len(loaded),
     projects |-> [p \in ProjectNames |-> NewProject],
     tool_usage_overall |-> [n \in ToolNames |-> 0],
     daily_activity |-> [d \in Dates |-> 0],
     hourly_activity |-> [h \in Hours |-> 0]]

Ok(a) == [analysis |-> a, raised |-> FALSE]
Raised(a) == [analysis |-> a, raised |-> TRUE]

\* first_activity set by the first timestamp seen only
StampFirstSeen(a, project, t) ==
    LET pd == a.projects[project]
        first == IF pd.first_activity = {} THEN {t} ELSE pd.first_activity
        last == IF pd.last_activity = {} \/ (\A l \in pd.last_activity : t > l)
                THEN {t} ELSE pd.last_activity
    IN [a EXCEPT !.projects[project].first_activity = first,
                 !.projects[project].last_activity = last,
                 !.daily_activity[LocalDate(t)] = @ + 1,
                 !.hourly_activity[LocalHour(t)] = @ + 1]

\* the timestamp of an entry: first and last activity, the two histograms
Stamp(a, project, t) ==
    LET pd == a.projects[project]
        first == IF pd.first_activity = {} \/ (\A f \in pd.first_activity : t < f)
                 THEN {t} ELSE pd.first_activity
        last == IF pd.last_activity = {} \/ (\A l \in pd.last_activity : t > l)
                THEN {t} ELSE pd.last_activity
    IN [a EXCEPT !.projects[project].first_activity = first,
                 !.projects[project].last_activity = last,
                 !.daily_activity[LocalDate(t)] = @ + 1,
                 !.hourly_activity[LocalHour(t)] = @ + 1]

\* " ".join(text_parts): a part boundary is at least one blank
RECURSIVE JoinParts(_)
JoinParts(parts) ==
    IF parts = <<>> THEN <<>>
    ELSE IF Len(parts) = 1 THEN Head(parts)
    ELSE Head(parts) \o <<"ws">> \o JoinParts(Tail(parts))

\* the text of a user message
UserContent(e) ==
    IF e.message # "dict" THEN <<>>
    ELSE IF e.content = "str" THEN e.text
    ELSE IF e.content = "list"
    THEN JoinParts(Map(LAMBDA b : b.text,
                       SelectSeq(e.blocks, LAMBDA b : b.type \in {"text", "str"})))
    ELSE <<>>

\* len(project_data["topics"]) < 3, the guard of a user topic
UserTopicAdmittedBelowFive(topics) == Len(topics) < TopicCap

UserTopicAdmittedWhenEmpty(topics) == Len(topics) = 0

UserTopicAdmitted(topics) == Len(topics) < UserTopicCap

\* len(project_data["topics"]) < 5, the guard of a tool-use topic
ToolTopicAdmittedAtFive(topics) == Len(topics) <= TopicCap

ToolTopicAdmitted(topics) == Len(topics) < TopicCap

\* the branch of a user entry
FoldUser(a, project, e) ==
    LET counted == [a EXCEPT !.projects[project].message_count = @ + 1]
        content == UserContent(e)
        topic == SummarizeContent(content)
    IN
    IF content # <<>> /\ UserTopicAdmitted(a.projects[project].topics)
       /\ Truthy(topic)
    THEN [counted EXCEPT !.projects[project].topics = Append(@, topic)]
    ELSE counted

\* the counters incremented only while a topic is still admitted
RECURSIVE FoldBlocksCountsWhenAdmitted(_, _, _)
FoldBlocksCountsWhenAdmitted(a, project, blocks) ==
    IF blocks = <<>> THEN Ok(a)
    ELSE
    LET b == Head(blocks) IN
    IF b.type # "tool_use"
    THEN FoldBlocksCountsWhenAdmitted(a, project, Tail(blocks))
    ELSE
    LET counted == [a EXCEPT !.projects[project].tool_usage[b.name] = @ + 1,
                             !.tool_usage_overall[b.name] = @ + 1]
        summary == SummarizeToolUse(b.name, b)
    IN
    IF ~ToolTopicAdmitted(a.projects[project].topics)
    THEN FoldBlocksCountsWhenAdmitted(a, project, Tail(blocks))
    ELSE IF summary.raised THEN Raised(counted)
    ELSE IF Truthy(summary.topic)
    THEN FoldBlocksCountsWhenAdmitted(
             [counted EXCEPT !.projects[project].topics =
                                 Append(@, summary.topic)],
             project, Tail(blocks))
    ELSE FoldBlocksCountsWhenAdmitted(counted, project, Tail(blocks))

\* the loop over the content blocks of an assistant message
RECURSIVE FoldBlocks(_, _, _)
FoldBlocks(a, project, blocks) ==
    IF blocks = <<>> THEN Ok(a)
    ELSE
    LET b == Head(blocks) IN
    IF b.type # "tool_use" THEN FoldBlocks(a, project, Tail(blocks))
    ELSE
    LET counted == [a EXCEPT !.projects[project].tool_usage[b.name] = @ + 1,
                             !.tool_usage_overall[b.name] = @ + 1]
        summary == SummarizeToolUse(b.name, b)
    IN
    IF ~ToolTopicAdmitted(a.projects[project].topics)
    THEN FoldBlocks(counted, project, Tail(blocks))
    ELSE IF summary.raised THEN Raised(counted)
    ELSE IF Truthy(summary.topic)
    THEN FoldBlocks([counted EXCEPT !.projects[project].topics =
                                        Append(@, summary.topic)],
                    project, Tail(blocks))
    ELSE FoldBlocks(counted, project, Tail(blocks))

\* the branch of an assistant entry
FoldAssistant(a, project, e) ==
    IF e.message # "dict" \/ e.content = "absent" THEN Ok(a)
    ELSE IF e.content \in {"null", "number"} THEN Raised(a)  \* not iterable
    ELSE IF e.content = "str" THEN Ok(a)       \* characters are no dicts
    ELSE FoldBlocks(a, project, e.blocks)

\* the branch of a summary entry
FoldSummary(a, project, e) ==
    IF e.summary # "absent" /\ Len(a.projects[project].topics) = 0
    THEN [a EXCEPT !.projects[project].topics =
                       Append(@, Label("summary", e.summary))]
    ELSE a

\* the loop body with the timestamp handled for message entries only
AnalyzeEntryStampsMessages(a, project, e) ==
    IF e.shape # "object" THEN Raised(a)
    ELSE IF e.ts = "bad" THEN Raised(a)
    ELSE
    LET stamped == IF e.ts = "iso" /\ e.type \in {"user", "assistant"}
                   THEN Stamp(a, project, e.instant) ELSE a IN
    IF e.type = "user" /\ e.message # "absent"
    THEN Ok(FoldUser(stamped, project, e))
    ELSE IF e.type = "assistant" /\ e.message # "absent"
    THEN FoldAssistant(stamped, project, e)
    ELSE IF e.type = "summary"
    THEN Ok(FoldSummary(stamped, project, e))
    ELSE Ok(stamped)

\* the body of the loop over the entries of a session
AnalyzeEntry(a, project, e) ==
    IF e.shape # "object" THEN Raised(a)       \* no attribute 'get'
    ELSE IF e.ts = "bad" THEN Raised(a)        \* ValueError of fromisoformat
    ELSE
    LET stamped == IF e.ts = "iso" THEN Stamp(a, project, e.instant) ELSE a IN
    IF e.type = "user" /\ e.message # "absent"
    THEN Ok(FoldUser(stamped, project, e))
    ELSE IF e.type = "assistant" /\ e.message # "absent"
    THEN FoldAssistant(stamped, project, e)
    ELSE IF e.type = "summary"
    THEN Ok(FoldSummary(stamped, project, e))
    ELSE Ok(stamped)

\* analyze_sessions up to the loop over the sessions
AnalyzeSessions ==
    /\ pc = "loaded"
    /\ analysis' = NewAnalysis(sessions)
    /\ si' = 1
    /\ ei' = 0
    /\ pc' = "fold"
    /\ UNCHANGED <<loaderVars, summaryVars, reportVars>>

\* the head of the loop over the sessions
FoldSession ==
    /\ pc = "fold"
    /\ si <= Len(sessions)
    /\ ei = 0
    /\ analysis' = [analysis EXCEPT !.projects[sessions[si].project].sessions =
                                        Append(@, sessions[si].session_id)]
    /\ ei' = 1
    /\ UNCHANGED <<pc, si, loaderVars, summaryVars, reportVars>>

\* one entry of the session; an exception leaves analyze_sessions
FoldEntry ==
    /\ pc = "fold"
    /\ si <= Len(sessions)
    /\ ei >= 1
    /\ LET s == sessions[si]
           r == AnalyzeEntry(analysis, s.project, s.data[ei])
       IN /\ analysis' = r.analysis
          /\ IF r.raised
             THEN pc' = "aborted" /\ UNCHANGED <<si, ei>>
             ELSE /\ pc' = pc
                  /\ IF ei < Len(s.data)
                     THEN ei' = ei + 1 /\ si' = si
                     ELSE ei' = 0 /\ si' = si + 1
    /\ UNCHANGED <<loaderVars, summaryVars, reportVars>>

\* return analysis
AnalyzeReturn ==
    /\ pc = "fold"
    /\ si > Len(sessions)
    /\ pc' = "done"
    /\ UNCHANGED <<loaderVars, foldVars, summaryVars, reportVars>>

-----------------------------------------------------------------------------
(* generate_markdown_report: the hourly activity section *)

\* max(analysis["hourly_activity"].values()), 1 for an empty dict; a key of
\* the dict has been incremented at least once
max_count(hourly) ==
    IF \A h \in Hours : hourly[h] = 0 THEN 1
    ELSE CHOOSE m \in {hourly[h] : h \in Hours} : \A h \in Hours : hourly[h] <= m

\* the thresholds read as exclusive
LevelExclusive(count, max) ==
    IF count = 0 THEN 0
    ELSE IF 10 * count > 8 * max THEN 5
    ELSE IF 10 * count > 6 * max THEN 4
    ELSE IF 10 * count > 4 * max THEN 3
    ELSE IF 10 * count > 2 * max THEN 2
    ELSE 1

\* the level of an hour.  ratio = count / max_count is the correctly rounded
\* quotient and 0.8, 0.6, 0.4, 0.2 are the doubles nearest to the tenths, so
\* ratio >= 0.8 is 10 * count >= 8 * max_count for the counts of a log
Level(count, max) ==
    IF count = 0 THEN 0
    ELSE IF 10 * count >= 8 * max THEN 5
    ELSE IF 10 * count >= 6 * max THEN 4
    ELSE IF 10 * count >= 4 * max THEN 3
    ELSE IF 10 * count >= 2 * max THEN 2
    ELSE 1

\* the lines "HH:00: blocks count" of the 24 hours, in the order appended
HourlySection(a) ==
    [i \in 1..HoursPerDay |->
        LET hour == i - 1
            count == a.hourly_activity[hour]
        IN [hour |-> hour, count |-> count,
            level |-> Level(count, max_count(a.hourly_activity))]]

\* report = generator.generate_markdown_report(analysis)
GenerateMarkdownReport ==
    /\ pc = "done"
    /\ report' = HourlySection(analysis)
    /\ pc' = "reported"
    /\ UNCHANGED <<loaderVars, foldVars, summaryVars>>

-----------------------------------------------------------------------------
(* Specifications of the run: load_sessions, then analyze_sessions *)

\* state of the generator before load_sessions is called
LoaderIdle ==
    /\ pc = "start"
    /\ fi = 0
    /\ lines = <<>> /\ data = <<>>
    /\ nlines = 0
    /\ sessions = <<>>
    /\ warnings = <<>>
    /\ analysis = NewAnalysis(<<>>)
    /\ si = 0 /\ ei = 0
    /\ report = <<>>

InitRun(kind) ==
    /\ LoaderIdle
    /\ archive = kind
    /\ root_exists \in BOOLEAN
    /\ project_filter \in Filters
    /\ text_in = <<>>
    /\ topic_out = None
    /\ called = FALSE

Init == InitRun("timed")

InitFold == InitRun("typed")

Next ==
    \/ LoadSessions
    \/ ReadLine
    \/ ReadError
    \/ EndOfFile
    \/ AnalyzeSessions
    \/ FoldSession
    \/ FoldEntry
    \/ AnalyzeReturn
    \/ GenerateMarkdownReport

Spec == Init /\ [][Next]_vars

SpecFold == InitFold /\ [][Next]_vars

-----------------------------------------------------------------------------
(* Specification of _summarize_content alone *)

Texts == UNION {[1..n -> Vocabulary] : n \in 0..MaxWords}

InitSummarize ==
    /\ LoaderIdle
    /\ archive = "none"
    /\ root_exists = TRUE
    /\ project_filter = ""
    /\ text_in \in Texts
    /\ topic_out = None
    /\ called = FALSE

Summarize ==
    /\ ~called
    /\ topic_out' = SummarizeContent(text_in)
    /\ called' = TRUE
    /\ UNCHANGED <<pc, loaderVars, foldVars, text_in, reportVars>>

NextSummarize == Summarize

SpecSummarize == InitSummarize /\ [][NextSummarize]_vars

-----------------------------------------------------------------------------
(* Specification of generate_markdown_report alone *)

\* the local hours of the instants load_sessions lets through
RangeHours == {LocalHour(t) : t \in from_date..to_date}

\* analyses whose hourly histogram has its keys among RangeHours
Histograms ==
    {[h \in Hours |-> IF h \in RangeHours THEN f[h] ELSE 0] :
        f \in [RangeHours -> 0..MaxCount]}

InitReport ==
    /\ pc = "done"
    /\ archive = "none"
    /\ root_exists = TRUE
    /\ project_filter = ""
    /\ fi = 0
    /\ lines = <<>> /\ data = <<>>
    /\ nlines = 0
    /\ sessions = <<>>
    /\ warnings = <<>>
    /\ \E hourly \in Histograms :
           analysis = [NewAnalysis(<<>>) EXCEPT !.hourly_activity = hourly]
    /\ si = 1 /\ ei = 0
    /\ text_in = <<>>
    /\ topic_out = None
    /\ called = FALSE
    /\ report = <<>>

NextReport == GenerateMarkdownReport

SpecReport == InitReport /\ [][NextReport]_vars

-----------------------------------------------------------------------------
(* Properties of the topic lists (SpecFold) *)

Topics(p) == analysis.projects[p].topics

IsPrefix(s, t) == Len(s) <= Len(t) /\ SubSeq(t, 1, Len(s)) = s

IsToolTopic(t) == t.key = "tool"
IsSummaryTopic(t) == t.key = "summary"
IsUserTopic(t) == ~IsToolTopic(t) /\ ~IsSummaryTopic(t)

\* the entries of a project in the order analyze_sessions folds them
ProjectEntries(p) ==
    Flatten(Map(LAMBDA s : s.data,
                SelectSeq(sessions, LAMBDA s : s.project = p)))

C2_ToolTopicsWaitForThree ==
    \A p \in ProjectNames : \A i \in 1..Len(Topics(p)) :
        (IsToolTopic(Topics(p)[i]) /\ i <= UserTopicCap)
            => IsSummaryTopic(Topics(p)[1])

\* C2 amended: no position is reserved.  A summary topic stands only in
\* position 1, a user topic only in positions 1..3, a tool-use topic in any
\* of the positions 1..5.
C2_TopicPositions ==
    \A p \in ProjectNames : \A i \in 1..Len(Topics(p)) :
        /\ IsSummaryTopic(Topics(p)[i]) => i = 1
        /\ IsUserTopic(Topics(p)[i]) => i <= UserTopicCap
        /\ IsToolTopic(Topics(p)[i]) => i <= TopicCap

\* C2 witness: a tool-use topic was appended to an empty list, a user topic
\* after it.
C2_Witness ==
    \E p \in ProjectNames :
        /\ Len(Topics(p)) >= 2
        /\ IsToolTopic(Topics(p)[1])
        /\ IsUserTopic(Topics(p)[2])

\* a project whose first entry is a summary entry and whose second entry is
\* a user entry with a text _summarize_content labels
SummaryThenUser(p) ==
    LET es == ProjectEntries(p) IN
    /\ Len(es) >= 2
    /\ es[1].type = "summary" /\ es[1].summary # "absent"
    /\ es[2].type = "user" /\ es[2].message = "dict" /\ es[2].content = "str"
    /\ es[2].text # <<>>
    /\ Truthy(SummarizeContent(es[2].text))

\* C3 as claimed: after the fold the topic list of such a project is exactly
\* the summary string.
C3_SummaryAlone ==
    \A p \in ProjectNames :
        (pc = "done" /\ SummaryThenUser(p))
            => Topics(p) = <<Label("summary", ProjectEntries(p)[1].summary)>>

\* C3 amended: after the fold the topic list of such a project starts with
\* the summary string followed by the topic of the user entry.
C3_SummaryThenUserTopic ==
    \A p \in ProjectNames :
        (pc = "done" /\ SummaryThenUser(p))
            => /\ Len(Topics(p)) >= 2
               /\ Topics(p)[1] = Label("summary", ProjectEntries(p)[1].summary)
               /\ Topics(p)[2] = SummarizeContent(ProjectEntries(p)[2].text)

\* C3 witness: the fold has returned for such a project.
C3_Witness ==
    \E p \in ProjectNames : pc = "done" /\ SummaryThenUser(p)

-----------------------------------------------------------------------------
(* Properties of the loader and of the time bounds (Spec) *)

BadTimestamp(e) == e.shape = "object" /\ e.ts = "bad"

Timestamped(e) == e.shape = "object" /\ e.ts = "iso"

Untimestamped(e) == e.shape = "object" /\ e.ts = "absent"

InRange(e) == from_date <= e.instant /\ e.instant <= to_date

\* C4 as claimed: a decoded line whose timestamp cannot be parsed is kept in
\* the entry sequence of the file being read.
C4_UnparseableRetained ==
    pc = "read" =>
        \A i \in 1..Len(lines) :
            BadTimestamp(lines[i]) => \E j \in 1..Len(data) : data[j] = lines[i]

\* C4 amended: a decoded line whose timestamp cannot be parsed is discarded
\* like a malformed line; no entry sequence, of the file being read or of a
\* loaded session, holds one.
C4_UnparseableDropped ==
    /\ \A j \in 1..Len(data) : ~BadTimestamp(data[j])
    /\ \A i \in 1..Len(sessions) : \A j \in 1..Len(sessions[i].data) :
           ~BadTimestamp(sessions[i].data[j])

\* C4 witness: a file with such a line and two lines that were kept.
C4_Witness ==
    /\ pc = "read"
    /\ \E i \in 1..Len(lines) : BadTimestamp(lines[i])
    /\ Len(data) = 2

\* C5 as claimed: no entry that load_sessions placed in a session makes
\* analyze_sessions raise.
C5_FoldNeverAborts == pc # "aborted"

ProjectInstants(p) ==
    LET es == ProjectEntries(p) IN
    {es[i].instant : i \in {j \in 1..Len(es) : Timestamped(es[j])}}

\* C7: after the fold, first_activity and last_activity of a project are the
\* least and the greatest instant of its timestamped entries, first <= last,
\* both within [from_date, to_date]; both are None without such an entry.
C7_ActivityBounds ==
    pc = "done" =>
        \A p \in ProjectNames :
            LET ts == ProjectInstants(p)
                first == analysis.projects[p].first_activity
                last == analysis.projects[p].last_activity
            IN IF ts = {}
               THEN first = {} /\ last = {}
               ELSE /\ first = {t \in ts : \A u \in ts : t <= u}
                    /\ last = {t \in ts : \A u \in ts : t >= u}
                    /\ \A f \in first : \A l \in last :
                           /\ f <= l
                           /\ from_date <= f /\ l <= to_date

\* C7 witness: a project whose later session holds its earliest entry.
C7_Witness ==
    /\ pc = "done"
    /\ \E i, j \in 1..Len(sessions) :
          /\ i < j
          /\ sessions[i].project = sessions[j].project
          /\ Timestamped(sessions[i].data[1])
          /\ Timestamped(sessions[j].data[1])
          /\ sessions[j].data[1].instant < sessions[i].data[1].instant

\* C8: without the root directory load_sessions raises and loads nothing; a
\* file that fails to load adds a warning and no session, the sessions
\* loaded so far stay, the loop goes on, a file read to its end with entries
\* kept becomes the next session, and entries kept are given up only with a
\* warning.
C8_LoadFailures ==
    /\ [](~root_exists => (pc \in {"start", "fatal"} /\ sessions = <<>>))
    /\ [](pc = "fatal" => ~root_exists)
    /\ [][/\ IsPrefix(sessions, sessions')
          /\ Len(warnings') > Len(warnings) =>
                 /\ sessions' = sessions
                 /\ pc' \in {"read", "loaded"}
                 /\ fi' = fi + 1
          /\ (pc = "read" /\ fi' = fi + 1 /\ warnings' = warnings
              /\ data # <<>>) =>
                 /\ Len(sessions') = Len(sessions) + 1
                 /\ Last(sessions').data = data
          /\ (pc = "read" /\ fi' = fi + 1 /\ sessions' = sessions
              /\ data # <<>>) =>
                 Len(warnings') = Len(warnings) + 1]_vars

\* C8 witness: the second of three files failed; the first and the third
\* are loaded.
C8_Witness ==
    /\ pc = "loaded"
    /\ warnings = <<"s2">>
    /\ Len(sessions) = 2
    /\ sessions[1].session_id = "s1"
    /\ sessions[2].session_id = "s3"

-----------------------------------------------------------------------------
(* Properties of the tool-usage counters (SpecFold) *)

\* the tool_use blocks named n among the entries es that reach the loop over
\* the content blocks
ToolUses(es, n) ==
    LET blocksOf(e) ==
            IF e.shape = "object" /\ e.type = "assistant"
               /\ e.message = "dict" /\ e.content = "list"
            THEN e.blocks ELSE <<>>
    IN Len(SelectSeq(Flatten(Map(blocksOf, es)),
                     LAMBDA b : b.type = "tool_use" /\ b.name = n))

\* the sum over the projects ps of their counts of tool n
RECURSIVE ProjectToolCount(_, _)
ProjectToolCount(ps, n) ==
    IF ps = {} THEN 0
    ELSE LET p == CHOOSE q \in ps : TRUE
         IN analysis.projects[p].tool_usage[n] + ProjectToolCount(ps \ {p}, n)

\* C9: for every tool name the global count is the sum of the project
\* counts at every point of the fold, and in the result the count of a
\* project is the number of tool_use blocks of that name in its entries,
\* whether or not its topic list was full.
C9_ToolCounts ==
    \A n \in ToolNames :
        /\ analysis.tool_usage_overall[n] =
               ProjectToolCount(ProjectNames, n)
        /\ pc = "done" =>
               \A p \in ProjectNames :
                   analysis.projects[p].tool_usage[n]
                       = ToolUses(ProjectEntries(p), n)

\* C9 witness: a project folded a Read block after its topic list was full.
C9_Witness ==
    /\ pc = "done"
    /\ analysis.tool_usage_overall["Read"] > TopicCap
    /\ \E p \in ProjectNames :
          /\ Len(Topics(p)) = TopicCap
          /\ analysis.projects[p].tool_usage["Read"] > TopicCap

-----------------------------------------------------------------------------
(* Properties of _summarize_content (SpecSummarize) *)

\* the condition of rule n of the cascade on the normalised text c; rule 6
\* is given by the parameter
RuleApplies(n, c, UrlRule(_)) ==
    CASE n = 2 -> \E i \in 1..Len(c) : ImageName(c[i]) # ""
      [] n = 3 -> \/ \E i \in 1..Len(c) : c[i] = "data:image"
                  \/ /\ JoinedLen(c) > Base64MinLen
                     /\ \A i \in 1..Len(c) : Base64Word(c[i])
      [] n = 4 -> \E i \in 1..Len(c) : c[i] = "Screenshot"
      [] n = 5 -> \E i \in 1..Len(c) : PathBasename(c[i]) # ""
      [] n = 6 -> UrlRule(c)
      [] n = 7 -> \E i \in 1..Len(c) : c[i] \in {"code", "function"}
      [] n = 8 -> JoinedLen(c) > LongTextLen
      [] OTHER -> TRUE

LowestRule(c, UrlRule(_)) ==
    CHOOSE n \in 2..9 :
        /\ RuleApplies(n, c, UrlRule)
        /\ \A m \in 2..(n - 1) : ~RuleApplies(m, c, UrlRule)

\* the rule a returned label belongs to
RuleOfLabel(t, c) ==
    CASE t.key = "image_file" -> 2
      [] t.key = "image_data" -> 3
      [] t.key = "screenshot" -> 4
      [] t.key \in {"file_create", "file_edit", "file_read", "file_operation"} -> 5
      [] t.key = "web_reference" -> 6
      [] t.key \in {"code_implementation", "error_fix", "code_related"} -> 7
      [] t.key = "text" /\ t.ellipsis /\ JoinedLen(c) > LongTextLen -> 8
      [] t.key = "text" -> 9
      [] OTHER -> 0

\* rule 6 as the specification words it: the text contains an HTTP(S) URL
HasUrl(c) == \E i \in 1..Len(c) : UrlWord(c[i])

\* rule 6 as the code decides it: the first URL of the text has a host
FirstUrlHasHost(c) ==
    /\ HasUrl(c)
    /\ UrlHost(c[CHOOSE i \in 1..Len(c) :
                     UrlWord(c[i]) /\ \A j \in 1..(i - 1) : ~UrlWord(c[j])]) # ""

CascadeHolds(UrlRule(_)) ==
    (called /\ text_in # <<>>) =>
        LET c == Normalize(text_in) IN
        /\ RuleOfLabel(topic_out, c) = LowestRule(c, UrlRule)
        /\ (RuleApplies(2, c, UrlRule) /\ HasUrl(c))
               => topic_out.key = "image_file"

\* C10 as claimed: the label of a non-empty text is that of the lowest rule
\* among rules 2-9 whose condition the text satisfies, rule 6 being "the
\* text contains an HTTP(S) URL".
C10_StrictCascade == CascadeHolds(HasUrl)

\* C10 amended: the label of a non-empty text is that of the lowest rule
\* among rules 2-9 whose condition the text satisfies, rule 6 being "the
\* first URL of the text has a host"; a text with an image file name and a
\* URL is labelled as image file.
C10_CascadeWithHost == CascadeHolds(FirstUrlHasHost)

\* C10 witness: a text with a URL followed by an image file name was
\* labelled.
C10_Witness ==
    /\ called
    /\ text_in = <<"http://h.com/p", "pic.png">>
    /\ topic_out = Label("image_file", "pic.png")

\* the text reaches rule 7: no rule before it applies and a code keyword
\* occurs in it
ReachesRule7(c) == LowestRule(c, FirstUrlHasHost) = 7

\* creation wording: "create" (or its Japanese counterparts) occurs
CreationWording(c) == \E i \in 1..Len(c) : c[i] = "create"

\* error wording: "error", or the Japanese words for error and for fix, occurs
ErrorWording(c) == \E i \in 1..Len(c) : c[i] \in {"error", "ja:shusei"}

\* C11: a text that reaches rule 7 is labelled code implementation request
\* when it has creation wording, also next to error wording; error fix when
\* it has error wording and no creation wording; code related work when it
\* has neither.
C11_CreationBeforeError ==
    (called /\ text_in # <<>>) =>
        LET c == Normalize(text_in) IN
        ReachesRule7(c) =>
            topic_out = IF CreationWording(c)
                        THEN Label("code_implementation", "")
                        ELSE IF ErrorWording(c)
                        THEN Label("error_fix", "")
                        ELSE Label("code_related", "")

\* C11 witness: a text with a code keyword, creation wording and error
\* wording was labelled code implementation request.
C11_Witness ==
    /\ called
    /\ text_in = <<"create", "function", "error">>
    /\ topic_out = Label("code_implementation", "")

-----------------------------------------------------------------------------
(* Properties of generate_markdown_report (SpecReport) *)

\* the greatest count among the lines of the hourly section
ReportMax ==
    CHOOSE m \in {report[i].count : i \in 1..Len(report)} :
        \A i \in 1..Len(report) : report[i].count <= m

\* C12: in the hourly section the level of an hour is 0 exactly when its
\* count is 0; otherwise it is 5, 4, 3, 2 or 1 as count/max reaches 0.8,
\* 0.6, 0.4, 0.2 or none of them, the bounds included; so it lies in 0..5,
\* the hour with the greatest count has level 5, and a count of 6 against
\* a greatest count of 10 has level 4.
C12_IntensityLevels ==
    pc = "reported" =>
        /\ Len(report) = HoursPerDay
        /\ \A i \in 1..Len(report) :
              LET c == report[i].count
                  l == report[i].level
                  m == ReportMax
              IN /\ report[i].hour = i - 1
                 /\ c = analysis.hourly_activity[i - 1]
                 /\ l \in 0..5
                 /\ l = 0 <=> c = 0
                 /\ c > 0 =>
                      /\ l = 5 <=> 5 * c >= 4 * m
                      /\ l = 4 <=> (5 * c >= 3 * m /\ 5 * c < 4 * m)
                      /\ l = 3 <=> (5 * c >= 2 * m /\ 5 * c < 3 * m)
                      /\ l = 2 <=> (5 * c >= m /\ 5 * c < 2 * m)
                      /\ l = 1 <=> 5 * c < m
                 /\ (c > 0 /\ c = m) => l = 5
                 /\ (c = 6 /\ m = 10) => l = 4

\* C12 witness: a report was generated in which an hour with count 6 stands
\* next to an hour with the greatest count 10 and has level 4.
C12_Witness ==
    /\ pc = "reported"
    /\ ReportMax = 10
    /\ \E i \in 1..Len(report) : report[i].count = 6 /\ report[i].level = 4

-----------------------------------------------------------------------------
(* Properties of the histograms of analyze_sessions (Spec) *)

\* the sum of the counts of histogram f over the keys in S
RECURSIVE SumCounts(_, _)
SumCounts(f, S) ==
    IF S = {} THEN 0
    ELSE LET k == CHOOSE x \in S : TRUE IN f[k] + SumCounts(f, S \ {k})

\* the entries with a timestamp field of all loaded sessions, in load order
StampedEntries ==
    SelectSeq(Flatten([i \in 1..Len(sessions) |-> sessions[i].data]),
              LAMBDA e : e.shape = "object" /\ e.ts # "absent")

\* the number of sessions listed under the projects in P
RECURSIVE ListedSessions(_)
ListedSessions(P) ==
    IF P = {} THEN 0
    ELSE LET p == CHOOSE x \in P : TRUE
         IN Len(analysis.projects[p].sessions) + ListedSessions(P \ {p})

\* C13: in the result of analyze_sessions the daily counts and the hourly
\* counts both sum to the number of loaded entries with a timestamp field,
\* each such entry of any type being counted once under its local date and
\* once under its local hour, an hour in 0..23; total_sessions is the sum
\* of the lengths of the projects' session-id lists.
C13_HistogramTotals ==
    pc \in {"done", "reported"} =>
        LET es == StampedEntries
            on(d) == {i \in 1..Len(es) : LocalDate(es[i].instant) = d}
            at(h) == {i \in 1..Len(es) : LocalHour(es[i].instant) = h}
        IN /\ SumCounts(analysis.daily_activity, DOMAIN analysis.daily_activity)
                 = Len(es)
           /\ SumCounts(analysis.hourly_activity,
                        DOMAIN analysis.hourly_activity) = Len(es)
           /\ \A d \in DOMAIN analysis.daily_activity :
                  analysis.daily_activity[d] = Cardinality(on(d))
           /\ \A h \in DOMAIN analysis.hourly_activity :
                  /\ h \in 0..23
                  /\ analysis.hourly_activity[h] = Cardinality(at(h))
           /\ \A i \in 1..Len(es) :
                  /\ LocalHour(es[i].instant) \in 0..23
                  /\ analysis.hourly_activity[LocalHour(es[i].instant)] >= 1
           /\ analysis.total_sessions = ListedSessions(ProjectNames)
           /\ analysis.total_sessions = Len(sessions)

\* C13 witness: the result covers two sessions and timestamped entries of a
\* user message and of another type.
C13_Witness ==
    /\ pc = "done"
    /\ analysis.total_sessions = 2
    /\ \E i, j \in 1..Len(StampedEntries) :
           /\ StampedEntries[i].type = "user"
           /\ StampedEntries[j].type \notin {"user", "assistant", "summary"}
    /\ SumCounts(analysis.hourly_activity, Hours) = Len(StampedEntries)

=============================================================================
